---- MODULE Spec2Model ----
(***************************************************************************)
(* Location autocomplete and weather fetch of jweather.                    *)
(*                                                                         *)
(* Two implementations live in the repository: the LocationSearch class    *)
(* (src/elements/scripts/location-search.js, "class") and the plain script *)
(* (src/unnamed/part_000, "script").  A page binds one of them to the      *)
(* search box; impl says which.                                            *)
(*                                                                         *)
(* Text is a sequence of UTF-16 code units (integers).                     *)
(***************************************************************************)
EXTENDS Integers, Sequences, FiniteSets, TLC

VARIABLES
    impl,               \* "class" or "script": the implementation bound to the page
    csv,                \* the rows of locations.csv the server delivers
    locations,          \* class: this.locations
    scriptLocations,    \* script: locations
    typing,             \* the text the user is typing, one keystroke per input event
    value,              \* searchInput.value
    currentSuggestions, \* class: this.currentSuggestions (indices into locations)
    selectedIndex,      \* class: this.selectedIndex
    containerHidden,    \* class: suggestionsContainer has the class 'hidden'
    suggestionsBox,     \* script: the <li> items of suggestionsBox (indices into scriptLocations)
    boxHidden,          \* script: suggestionsBox has the class 'hidden'
    fetches,            \* class: the fetchWeatherData calls made so far, in order
    display,            \* the weather sections of the page
    issued,             \* the network requests issued so far, <<fetch, request>>
    selectedLocation,   \* script: selectedLocation (<<>> for null, else <<the object>>)
    blurTimer,          \* a blur handler's setTimeout callback is pending
    uncaught,           \* an error escaped: a thrown exception or an unhandled rejection
    arg,                \* the argument of the function under study
    result,             \* what it returned
    lastEvent           \* the last handler or continuation run, and what it did

searchVars == <<impl, csv, typing, locations, scriptLocations, value, currentSuggestions,
                selectedIndex, containerHidden, suggestionsBox, boxHidden>>

fetchVars == <<fetches, display, issued>>

otherVars == <<selectedLocation, blurTimer, uncaught, arg, result>>

vars == <<searchVars, fetchVars, otherVars, lastEvent>>

-----------------------------------------------------------------------------
(* Bounds *)

MaxLen == 3
MaxFetches == 2

-----------------------------------------------------------------------------
(* Characters *)

LastStripped == 879    \* U+036F, the upper end of the range normalize removes
MinQueryLen == 2
ClassCap == 10
ScriptCap == 15

\* ' ' ',' '1' '2' 'A' 'N' 'a' 'n' N-tilde n-tilde combining-tilde Alpha alpha
Space == <<32>>
CommaSpace == <<44, 32>>

Min(a, b) == IF a < b THEN a ELSE b

\* String.prototype.toLowerCase on one code unit
LowerChar(c) ==
    CASE c = 65  -> 97
      [] c = 78  -> 110
      [] c = 209 -> 241
      [] c = 913 -> 945
      [] OTHER   -> c

toLowerCase(s) == [i \in 1..Len(s) |-> LowerChar(s[i])]

\* canonical decomposition of one code unit
NFDChar(c) ==
    CASE c = 209 -> <<78, 771>>
      [] c = 241 -> <<110, 771>>
      [] OTHER   -> <<c>>

RECURSIVE NFD(_)
NFD(s) == IF s = <<>> THEN <<>> ELSE NFDChar(Head(s)) \o NFD(Tail(s))

\* s.indexOf(t) >= 0 at position i (1-based)
OccursAt(s, t, i) ==
    /\ i >= 1
    /\ i + Len(t) - 1 <= Len(s)
    /\ \A k \in 1..Len(t) : s[i + k - 1] = t[k]

includes(s, t) == \E i \in 1..(Len(s) + 1) : OccursAt(s, t, i)

startsWith(s, t) == OccursAt(s, t, 1)

IsWhite(c) == c = 32

RECURSIVE trimStart(_)
trimStart(s) == IF s # <<>> /\ IsWhite(Head(s)) THEN trimStart(Tail(s)) ELSE s

RECURSIVE trimEnd(_)
trimEnd(s) ==
    IF s # <<>> /\ IsWhite(s[Len(s)]) THEN trimEnd(SubSeq(s, 1, Len(s) - 1)) ELSE s

trim(s) == trimEnd(trimStart(s))

\* Array.prototype.slice(0, n)
slice0(s, n) == SubSeq(s, 1, Min(n, Len(s)))

-----------------------------------------------------------------------------
(* script: normalize *)

\* .replace(/[\0-\u036f]/g, ''): every code unit from U+0000 to U+036F is removed
InStrippedRange(c) == c >= 0 /\ c <= LastStripped

normalize(str) == SelectSeq(NFD(toLowerCase(str)), LAMBDA c : ~InStrippedRange(c))

-----------------------------------------------------------------------------
(* The dataset *)

Row(zip, lat, lng, city, state) ==
    [zip |-> zip, lat |-> lat, lng |-> lng, city |-> city, state |-> state]

\* 11,Ana(tilde),NA   211,alpha-alpha,AN   12,nan,aa   21,Na,2a
BaseRows == <<
    Row(<<49, 49>>,     1, 1, <<65, 241, 97>>,  <<78, 65>>),
    Row(<<50, 49, 49>>, 2, 2, <<945, 913>>,     <<65, 78>>),
    Row(<<49, 50>>,     3, 3, <<110, 97, 110>>, <<97, 97>>),
    Row(<<50, 49>>,     4, 4, <<78, 97>>,       <<50, 97>>) >>

\* a dataset of n rows, the base rows repeated with their own coordinates
RowsOf(n) ==
    [i \in 1..n |-> [BaseRows[((i - 1) % Len(BaseRows)) + 1] EXCEPT !.lat = i, !.lng = i]]

SmallSize == 4
MidSize == 13
LargeSize == 18

Datasets == { RowsOf(SmallSize), RowsOf(MidSize), RowsOf(LargeSize) }

\* class: one element of lines.slice(1).map(...)
ClassRecord(r) ==
    [zip |-> trim(r.zip), lat |-> r.lat, lng |-> r.lng, city |-> trim(r.city),
     state |-> trim(r.state),
     displayText |-> trim(r.city) \o CommaSpace \o trim(r.state) \o Space \o trim(r.zip)]

classLoad(rows) == [i \in 1..Len(rows) |-> ClassRecord(rows[i])]

\* script: results.data.filter(...).map(...)
ScriptRecord(r) ==
    [zip |-> r.zip, lat |-> r.lat, lng |-> r.lng, city |-> r.city, state_id |-> r.state,
     display |-> r.city \o CommaSpace \o r.state \o Space \o r.zip,
     search |-> r.zip \o Space \o r.city \o Space \o r.state]

ScriptRowKept(r) == r.zip # <<>> /\ r.city # <<>> /\ r.state # <<>>

scriptLoad(rows) ==
    LET kept == SelectSeq(rows, ScriptRowKept)
    IN  [i \in 1..Len(kept) |-> ScriptRecord(kept[i])]

-----------------------------------------------------------------------------
(* Matching *)

\* class: the predicate of this.locations.filter in showSuggestions
ClassMatches(location, query) ==
    LET queryLower == toLowerCase(query)
    IN  IF location.city = <<>> \/ location.state = <<>> \/ location.zip = <<>>
        THEN FALSE
        ELSE \/ includes(toLowerCase(location.city), queryLower)
             \/ includes(toLowerCase(location.state), queryLower)
             \/ includes(location.zip, query)

\* script: the predicate of locations.filter in showSuggestions
ScriptMatches(loc, query) ==
    LET q == normalize(query)
    IN  \/ startsWith(normalize(loc.zip), q)
        \/ includes(normalize(loc.city), q)
        \/ startsWith(normalize(loc.state_id), q)

\* Array.prototype.filter, as the indices kept, in array order
RECURSIVE classFilter(_, _, _)
classFilter(locs, query, i) ==
    IF i > Len(locs) THEN <<>>
    ELSE (IF ClassMatches(locs[i], query) THEN <<i>> ELSE <<>>)
         \o classFilter(locs, query, i + 1)

RECURSIVE scriptFilter(_, _, _)
scriptFilter(locs, query, i) ==
    IF i > Len(locs) THEN <<>>
    ELSE (IF ScriptMatches(locs[i], query) THEN <<i>> ELSE <<>>)
         \o scriptFilter(locs, query, i + 1)

\* the filter without its slice(0, 10)
classQueryUncapped(locs, query) == classFilter(locs, query, 1)

classQuery(locs, query) == slice0(classFilter(locs, query, 1), ClassCap)

scriptQuery(locs, query) == slice0(scriptFilter(locs, query, 1), ScriptCap)

-----------------------------------------------------------------------------
(* What the last handler did; a record of the run, not program state *)

NoBodies == [current |-> "", forecast |-> "", alerts |-> ""]

Event(kind, f, text, filtered, pending, branch, data) ==
    [kind |-> kind, f |-> f, text |-> text, filtered |-> filtered,
     pending |-> pending, branch |-> branch, data |-> data]

SearchEvent(kind, text, filtered) == Event(kind, 0, text, filtered, 0, "", NoBodies)

FetchEvent(kind, f, pending, branch, data) == Event(kind, f, <<>>, FALSE, pending, branch, data)

\* a continuation that applied no outcome to the display
Progress == FetchEvent("progress", 0, 0, "", NoBodies)

-----------------------------------------------------------------------------
(* class: the suggestion list *)

SuggestionState(cs, idx, hidden) == [currentSuggestions |-> cs, selectedIndex |-> idx,
                                     containerHidden |-> hidden]

\* hideSuggestions()
hideSuggestions == SuggestionState(<<>>, -1, TRUE)

\* showSuggestions(query): selectedIndex is left as it was when there are matches
showSuggestions(query) ==
    LET matches == classQuery(locations, query)
    IN  IF Len(matches) = 0
        THEN hideSuggestions
        ELSE SuggestionState(matches, selectedIndex, FALSE)

SetSuggestions(st) ==
    /\ currentSuggestions' = st.currentSuggestions
    /\ selectedIndex' = st.selectedIndex
    /\ containerHidden' = st.containerHidden

\* handleInput's guard: the trimmed text is too short to be matched
ClassTooShort(text) == Len(trim(text)) < MinQueryLen

\* loadLocations(), once the response text has arrived
loadLocations ==
    /\ impl = "class"
    /\ locations = <<>>
    /\ locations' = classLoad(csv)
    /\ lastEvent' = SearchEvent("load", <<>>, FALSE)
    /\ UNCHANGED <<impl, csv, typing, scriptLocations, value, currentSuggestions, selectedIndex,
                   containerHidden, suggestionsBox, boxHidden, fetchVars, otherVars>>

\* the user edits the search box to text; handleInput(e)
handleInput(text) ==
    /\ impl = "class"
    /\ value' = text
    /\ IF ClassTooShort(text)
       THEN /\ SetSuggestions(hideSuggestions)
            /\ lastEvent' = SearchEvent("input", text, FALSE)
       ELSE /\ SetSuggestions(showSuggestions(trim(text)))
            /\ lastEvent' = SearchEvent("input", text, TRUE)
    /\ UNCHANGED <<impl, csv, typing, locations, scriptLocations, suggestionsBox, boxHidden,
                   fetchVars, otherVars>>

\* handleFocus(e)
handleFocus ==
    /\ impl = "class"
    /\ IF Len(trim(value)) >= MinQueryLen
       THEN /\ SetSuggestions(showSuggestions(trim(value)))
            /\ lastEvent' = SearchEvent("focus", value, TRUE)
       ELSE /\ UNCHANGED <<currentSuggestions, selectedIndex, containerHidden>>
            /\ lastEvent' = SearchEvent("focus", value, FALSE)
    /\ UNCHANGED <<impl, csv, typing, locations, scriptLocations, value, suggestionsBox, boxHidden,
                   fetchVars, otherVars>>

-----------------------------------------------------------------------------
(* script: the suggestion list *)

\* showSuggestions' guard: !query || query.length < 2, on the text as typed
ScriptTooShort(query) == Len(query) < MinQueryLen

\* Papa.parse's complete callback
scriptLoadLocations ==
    /\ impl = "script"
    /\ scriptLocations = <<>>
    /\ scriptLocations' = scriptLoad(csv)
    /\ lastEvent' = SearchEvent("load", <<>>, FALSE)
    /\ UNCHANGED <<impl, csv, typing, locations, value, currentSuggestions, selectedIndex,
                   containerHidden, suggestionsBox, boxHidden, fetchVars, otherVars>>

\* the input listener: showSuggestions(e.target.value)
scriptInput(text) ==
    /\ impl = "script"
    /\ value' = text
    /\ IF ScriptTooShort(text)
       THEN /\ boxHidden' = TRUE
            /\ suggestionsBox' = <<>>
            /\ lastEvent' = SearchEvent("input", text, FALSE)
       ELSE LET matches == scriptQuery(scriptLocations, text)
            IN  /\ IF Len(matches) = 0
                   THEN boxHidden' = TRUE /\ suggestionsBox' = <<>>
                   ELSE boxHidden' = FALSE /\ suggestionsBox' = matches
                /\ lastEvent' = SearchEvent("input", text, TRUE)
    /\ UNCHANGED <<impl, csv, typing, locations, scriptLocations, currentSuggestions, selectedIndex,
                   containerHidden, fetchVars, otherVars>>

-----------------------------------------------------------------------------
(* class: the weather display *)

Section(kind, f) == [kind |-> kind, f |-> f]

Dash == Section("dash", 0)                  \* '--°F'
Loading == Section("loading", 0)            \* 'Loading weather data...'
ErrorMessage == Section("error", 0)         \* 'Error loading weather data. Please try again.'
NoAlerts == Section("noalerts", 0)          \* 'No active weather alerts'
Data(f) == Section("data", f)               \* a section rendered from fetch f's response

\* the bodies the three branches can parse to: "nodata" is a JSON body without
\* the member the renderer reads (what a non-success status carries)
Bodies ==
    [current : {"good", "nodata"}, forecast : {"good", "nodata"},
     alerts : {"alerts", "none", "nodata"}]

updateAlertsUILeftWhenEmpty(d, alerts, f) ==
    IF alerts = "alerts" THEN [d EXCEPT !.alerts = Data(f)] ELSE d

\* updateAlertsUI(alertsData)
updateAlertsUI(d, alerts, f) ==
    IF alerts = "alerts"
    THEN [d EXCEPT !.alerts = Data(f)]
    ELSE [d EXCEPT !.alerts = NoAlerts]

\* updateForecastUI(forecastData)
updateForecastUI(d, forecast, f) ==
    IF forecast # "good" THEN d ELSE [d EXCEPT !.forecast = Data(f)]

\* the current-conditions block of updateWeatherUI
updateCurrentUI(d, current, f) ==
    IF current = "good"
    THEN [d EXCEPT !.temp = Data(f), !.condition = Data(f), !.details = Data(f)]
    ELSE d

\* updateWeatherUI(weatherData, message, location); message "" stands for null
updateWeatherUI(d, weatherData, message, location, f) ==
    LET h == [d EXCEPT !.header = location]
    IN  IF message # ""
        THEN [h EXCEPT !.temp = Dash, !.condition = Section(message, 0)]
        ELSE updateForecastUI(
                 updateAlertsUI(updateCurrentUI(h, weatherData.current, f),
                                weatherData.alerts, f),
                 weatherData.forecast, f)

-----------------------------------------------------------------------------
(* class: fetchWeatherData, one record per call *)

Branches == {"obs", "fc", "al"}

Fetch(location, pc, obs, fc, al) ==
    [location |-> location, pc |-> pc, obs |-> obs, fc |-> fc, al |-> al]

\* call c once its outcome has been applied: responses still in flight are
\* dropped; "-" stays for branches that were never started
Settled(c, pc) ==
    LET end(x) == IF x = "-" THEN "-" ELSE "done"
    IN  Fetch(c.location, pc, end(c.obs), end(c.fc), end(c.al))

InFlight(f) == f \in 1..Len(fetches) /\ fetches[f].pc \notin {"success", "failed"}

\* the branches of call f that have not settled yet
PendingBranches(f) ==
    LET c == fetches[f]
    IN  CASE c.pc = "stage2" -> { b \in Branches : c[b] # "resolved" }
          [] c.pc = "bodies" -> { b \in Branches : c[b] # "parsed" }
          [] OTHER -> {}

\* the records a suggestion can hold: showSuggestions lists none with an empty field
CanSuggest(i) ==
    /\ i \in 1..Len(locations)
    /\ locations[i].city # <<>> /\ locations[i].state # <<>> /\ locations[i].zip # <<>>

\* selectLocation(location), as a suggestion's click listener or Enter calls it,
\* up to the first await of fetchWeatherData: the search box and the list are
\* updated, the loading state is shown, then the point request is issued; event
\* is the record of the run
selectLocationBy(i, event) ==
    /\ impl = "class"
    /\ CanSuggest(i)
    /\ Len(fetches) < MaxFetches
    /\ value' = locations[i].displayText
    /\ SetSuggestions(hideSuggestions)
    /\ display' = updateWeatherUI(display, NoBodies, "loading", i, Len(fetches) + 1)
    /\ issued' = issued \cup {<<Len(fetches) + 1, "point">>}
    /\ fetches' = Append(fetches, Fetch(i, "point", "-", "-", "-"))
    /\ lastEvent' = event
    /\ UNCHANGED <<impl, csv, typing, locations, scriptLocations, suggestionsBox, boxHidden,
                   otherVars>>

\* a record of the index is selected, whatever the list shows
selectLocation(i) ==
    selectLocationBy(i, FetchEvent("select", Len(fetches) + 1, 0, "", NoBodies))

\* the catch block of fetchWeatherData, entered from branch (or the point request)
Catch(f, branch) ==
    /\ display' = updateWeatherUI(display, NoBodies, "error", fetches[f].location, f)
    /\ fetches' = [fetches EXCEPT ![f] = Settled(@, "failed")]
    /\ lastEvent' = FetchEvent("catch", f, Cardinality(PendingBranches(f) \ {branch}),
                               branch, NoBodies)

PointOutcomes == {"ok", "notok", "rejected", "malformed", "noprops"}

\* the point response taken without the check of pointResponse.ok
PointUsableNoStatusCheck(outcome) == outcome \in {"ok", "notok"}

\* when the point response is usable: status ok and a body with properties
PointUsable(outcome) == outcome = "ok"

\* the point request settles and its body is read
PointSettle(f, outcome) ==
    /\ InFlight(f)
    /\ fetches[f].pc = "point"
    /\ IF PointUsable(outcome)
       THEN /\ fetches' = [fetches EXCEPT ![f] =
                             Fetch(@.location, "stage2", "stations", "pending", "pending")]
            /\ issued' = issued \cup {<<f, "stations">>, <<f, "forecast">>, <<f, "alerts">>}
            /\ lastEvent' = FetchEvent("point", f, 0, outcome, NoBodies)
            /\ UNCHANGED display
       ELSE /\ Catch(f, "point")
            /\ UNCHANGED issued
    /\ UNCHANGED <<searchVars, otherVars>>

\* branch b of call f resolves: the second await starts once all three have
ResolveBranch(f, b) ==
    LET c == [fetches[f] EXCEPT ![b] = "resolved"]
    IN  /\ fetches' = [fetches EXCEPT ![f] =
                         IF \A x \in Branches : c[x] = "resolved"
                         THEN Fetch(c.location, "bodies", "reading", "reading", "reading")
                         ELSE c]
        /\ lastEvent' = Progress
        /\ UNCHANGED display

\* the stations list arrives and is parsed; "failed" is a transport error, a
\* malformed body or a body without features[0]
StationsSettle(f, outcome) ==
    /\ InFlight(f)
    /\ fetches[f].pc = "stage2" /\ fetches[f].obs = "stations"
    /\ IF outcome = "ok"
       THEN /\ fetches' = [fetches EXCEPT ![f].obs = "latest"]
            /\ issued' = issued \cup {<<f, "latest">>}
            /\ lastEvent' = Progress
            /\ UNCHANGED display
       ELSE /\ Catch(f, "obs")
            /\ UNCHANGED issued
    /\ UNCHANGED <<searchVars, otherVars>>

\* a stage-2 request settles: "resolved" with a response of any status,
\* "rejected" on a transport error
BranchAwaiting(f, b) ==
    /\ InFlight(f)
    /\ fetches[f].pc = "stage2"
    /\ fetches[f][b] = (IF b = "obs" THEN "latest" ELSE "pending")

BranchSettle(f, b, outcome) ==
    /\ BranchAwaiting(f, b)
    /\ IF outcome = "resolved" THEN ResolveBranch(f, b) ELSE Catch(f, b)
    /\ UNCHANGED <<issued, searchVars, otherVars>>

LatestSettle(f, outcome) == BranchSettle(f, "obs", outcome)

ForecastSettle(f, outcome) == BranchSettle(f, "fc", outcome)

AlertsSettle(f, outcome) == BranchSettle(f, "al", outcome)

\* the bodies in hand when branch b of call f parses: all three once it is the last
BodiesAt(f, b) == IF PendingBranches(f) = {b} THEN Bodies ELSE {NoBodies}

\* response.json() of branch b settles; the last one to parse hands the three
\* bodies to updateWeatherUI
BodySettle(f, b, outcome, data) ==
    /\ InFlight(f)
    /\ fetches[f].pc = "bodies" /\ fetches[f][b] = "reading"
    /\ IF outcome = "malformed"
       THEN Catch(f, b)
       ELSE IF PendingBranches(f) = {b}
            THEN /\ display' = updateWeatherUI(display, data, "", fetches[f].location, f)
                 /\ fetches' = [fetches EXCEPT ![f] = Settled(@, "success")]
                 /\ lastEvent' = FetchEvent("render", f, 0, b, data)
            ELSE /\ fetches' = [fetches EXCEPT ![f][b] = "parsed"]
                 /\ lastEvent' = Progress
                 /\ UNCHANGED display
    /\ UNCHANGED <<issued, searchVars, otherVars>>

-----------------------------------------------------------------------------
(* The query specification: every text of up to MaxLen characters is typed  *)
(* into either implementation, over datasets smaller and larger than the    *)
(* caps.                                                                    *)

Alphabet == {32, 49, 65, 97, 110, 945}

Texts(n) == UNION { [1..k -> Alphabet] : k \in 0..n }

InitialSection == [kind |-> "initial", f |-> 0]

InitialDisplay ==
    [header |-> 0, temp |-> InitialSection, condition |-> InitialSection,
     details |-> InitialSection, alerts |-> InitialSection, forecast |-> InitialSection]

InitPage ==
    /\ locations = <<>>
    /\ scriptLocations = <<>>
    /\ value = <<>>
    /\ currentSuggestions = <<>>
    /\ selectedIndex = -1
    /\ containerHidden = TRUE
    /\ suggestionsBox = <<>>
    /\ boxHidden = TRUE
    /\ fetches = <<>>
    /\ display = InitialDisplay
    /\ issued = {}
    /\ selectedLocation = <<>>
    /\ blurTimer = FALSE
    /\ uncaught = FALSE
    /\ result = <<>>
    /\ lastEvent = SearchEvent("init", <<>>, FALSE)

InitQuery ==
    /\ impl \in {"class", "script"}
    /\ csv \in Datasets
    /\ typing \in Texts(MaxLen)
    /\ arg = <<>>
    /\ InitPage

\* the texts an edit of the search box leaves in it: the prefixes of typing
Keystrokes == { SubSeq(typing, 1, k) : k \in 0..Len(typing) } \ {value}

NextQuery ==
    \/ loadLocations
    \/ scriptLoadLocations
    \/ \E text \in Keystrokes : handleInput(text)
    \/ handleFocus
    \/ \E text \in Keystrokes : scriptInput(text)

SpecQuery == InitQuery /\ [][NextQuery]_vars

-----------------------------------------------------------------------------
(* The page with the class bound to it: selections and their fetch chains *)

PageRows == SubSeq(BaseRows, 3, 3)

Init ==
    /\ impl = "class"
    /\ csv = PageRows
    /\ typing = <<>>
    /\ arg = <<>>
    /\ InitPage

Next ==
    \/ loadLocations
    \/ \E i \in 1..Len(locations) : selectLocation(i)
    \/ \E f \in 1..Len(fetches) : \E outcome \in PointOutcomes : PointSettle(f, outcome)
    \/ \E f \in 1..Len(fetches) : \E outcome \in {"ok", "failed"} : StationsSettle(f, outcome)
    \/ \E f \in 1..Len(fetches) : \E outcome \in {"resolved", "rejected"} :
          LatestSettle(f, outcome)
    \/ \E f \in 1..Len(fetches) : \E outcome \in {"resolved", "rejected"} :
          ForecastSettle(f, outcome)
    \/ \E f \in 1..Len(fetches) : \E outcome \in {"resolved", "rejected"} :
          AlertsSettle(f, outcome)
    \/ \E f \in 1..Len(fetches) : \E b \in Branches :
          \/ BodySettle(f, b, "malformed", NoBodies)
          \/ \E data \in BodiesAt(f, b) : BodySettle(f, b, "parsed", data)

Spec == Init /\ [][Next]_vars

-----------------------------------------------------------------------------
(* Claims about the fetch chain (checked under Spec) *)

Sections == {"temp", "condition", "details", "alerts", "forecast"}

Latest == Len(fetches)

AllSettled == fetches # <<>> /\ \A f \in 1..Len(fetches) : ~InFlight(f)

\* an outcome (the snapshot or the error message) was just applied to the display
OutcomeApplied == lastEvent.kind \in {"catch", "render"}

IssuedBy(f) == { r \in {"point", "stations", "latest", "forecast", "alerts"} : <<f, r>> \in issued }

\* the section a branch feeds
SectionOf(b) == CASE b = "current" -> "temp" [] b = "forecast" -> "forecast" [] OTHER -> "alerts"

\* C1: stale-response guard: an outcome is applied only by the fetch of the most
\* recent selection, and once every chain has finished no section shows data of
\* an earlier selection
C1_StaleGuard ==
    /\ OutcomeApplied => lastEvent.f = Latest
    /\ AllSettled => \A s \in Sections : display[s].f \in {0, Latest}

\* C2: with the point request successful and exactly one branch failing, the
\* fetch ends in Success: the error message does not replace the snapshot, and
\* only the failed branch's section is marked unavailable
C2_PartialFailure ==
    /\ ~(lastEvent.kind = "catch" /\ lastEvent.branch \in Branches /\ lastEvent.pending = 0)
    /\ lastEvent.kind = "render" =>
          \A b \in {"current", "forecast", "alerts"} :
              lastEvent.data[b] = "nodata" => display[SectionOf(b)].kind = "unavailable"

\* C3: a failed point request (non-success status, transport error, unreadable
\* body) ends the fetch in Failed with the error message shown, and no stations,
\* latest-observation, forecast or alerts request is ever issued for that fetch
C3_PointFailureAborts ==
    /\ lastEvent.kind = "point" => lastEvent.branch = "ok"
    /\ (lastEvent.kind = "catch" /\ lastEvent.branch = "point") =>
          /\ fetches[lastEvent.f].pc = "failed"
          /\ display.condition = ErrorMessage /\ display.temp = Dash
    /\ \A f \in 1..Len(fetches) :
          /\ fetches[f].pc = "point" => IssuedBy(f) = {"point"}
          /\ (fetches[f].pc = "failed" /\ fetches[f].obs = "-") => IssuedBy(f) = {"point"}

\* a fetch whose point request failed, after its catch block has run
C3_Witness ==
    /\ lastEvent.kind = "catch" /\ lastEvent.branch = "point"
    /\ fetches[lastEvent.f].pc = "failed"
    /\ IssuedBy(lastEvent.f) = {"point"}

\* C4: settle semantics: an outcome is applied to the display only when none of
\* the three branches is still pending
C4_SettleBeforeOutcome == OutcomeApplied => lastEvent.pending = 0

\* C5: from a selection until its fetch settles the display is in the loading
\* state (stated for the most recent selection)
C5_LoadingUntilSettle ==
    InFlight(Latest) => (display.temp = Dash /\ display.condition = Loading)

\* C6: after a fetch completes no section shows data of an earlier fetch, and a
\* branch without usable data leaves its section marked unavailable
C6_NoStaleSections ==
    lastEvent.kind = "render" =>
        /\ \A s \in Sections : display[s].f \in {0, lastEvent.f}
        /\ \A b \in {"current", "forecast", "alerts"} :
              lastEvent.data[b] = "nodata" => display[SectionOf(b)].kind = "unavailable"

-----------------------------------------------------------------------------
(* Claims about the query (checked under SpecQuery) *)

Range(seq) == { seq[i] : i \in 1..Len(seq) }

\* the suggestion list on the page, and the records it indexes
Result == IF impl = "class" THEN currentSuggestions ELSE suggestionsBox

Loaded ==
    IF impl = "class"
    THEN [i \in 1..Len(locations) |->
            [zip |-> locations[i].zip, city |-> locations[i].city,
             state |-> locations[i].state]]
    ELSE [i \in 1..Len(scriptLocations) |->
            [zip |-> scriptLocations[i].zip, city |-> scriptLocations[i].city,
             state |-> scriptLocations[i].state_id]]

Cap == IF impl = "class" THEN ClassCap ELSE ScriptCap

\* the query the last input or focus event handed to the filter
LastQuery == IF impl = "class" THEN trim(lastEvent.text) ELSE lastEvent.text

Queried == lastEvent.kind \in {"input", "focus"}

\* the normalization the matching rules are stated in: case folded, diacritics
\* (combining marks U+0300..U+036F of the decomposition) stripped
Fold(s) == SelectSeq(NFD(toLowerCase(s)), LAMBDA c : ~(c >= 768 /\ c <= 879))

RuleMatches(r, q) ==
    \/ startsWith(Fold(r.zip), Fold(q))
    \/ includes(Fold(r.city), Fold(q))
    \/ startsWith(Fold(r.state), Fold(q))

\* q is a case or diacritic variant of a substring of city
VariantOfSubstring(q, city) ==
    \E a \in 1..Len(city) : \E b \in a..Len(city) : Fold(SubSeq(city, a, b)) = Fold(q)

\* C7: a text whose trimmed length is below 2 gives an empty suggestion list and
\* runs no matching, on the input and the focus path of both implementations
C7_ShortQueryEmpty ==
    (Queried /\ Len(trim(lastEvent.text)) < MinQueryLen)
        => (~lastEvent.filtered /\ Result = <<>>)

\* C8: for a query of at least 2 characters the suggestions are the records
\* whose normalized zip starts with, city contains, or state starts with the
\* normalized query: no other record is listed, and below the cap none is missing
C8_MatchRule ==
    (Queried /\ lastEvent.filtered /\ Len(LastQuery) >= MinQueryLen)
        => /\ \A i \in Range(Result) : RuleMatches(Loaded[i], LastQuery)
           /\ Len(Result) < Cap =>
                \A i \in 1..Len(Loaded) :
                    RuleMatches(Loaded[i], LastQuery) => i \in Range(Result)

\* C9: every loaded record whose city has a substring of which the query (of
\* length >= 2) is a case or diacritic variant is in the result
C9_VariantIncluded ==
    (Queried /\ lastEvent.filtered /\ Len(LastQuery) >= MinQueryLen)
        => \A i \in 1..Len(Loaded) :
              VariantOfSubstring(LastQuery, Loaded[i].city) => i \in Range(Result)

\* the implementation's own match predicate on loaded record i
ImplMatches(i) ==
    IF impl = "class" THEN ClassMatches(locations[i], LastQuery)
    ELSE ScriptMatches(scriptLocations[i], LastQuery)

\* C10: the suggestion list has at most cap entries (10 class, 15 script) and is
\* the first cap matching records in dataset order, without repetition
C10_CappedPrefix ==
    (Queried /\ lastEvent.filtered)
        => /\ Len(Result) <= Cap
           /\ \A j \in 1..Len(Result) : Result[j] \in 1..Len(Loaded) /\ ImplMatches(Result[j])
           /\ \A j \in 1..(Len(Result) - 1) : Result[j] < Result[j + 1]
           /\ \A i \in 1..Len(Loaded) :
                (ImplMatches(i) /\ i \notin Range(Result))
                    => (Len(Result) = Cap /\ i > Result[Len(Result)])

\* a query on a dataset with more matches than the cap: the list was cut
C10_Witness ==
    /\ Queried /\ lastEvent.filtered
    /\ Len(Result) = Cap
    /\ \E i \in 1..Len(Loaded) : ImplMatches(i) /\ i \notin Range(Result)

-----------------------------------------------------------------------------
(* script: highlightMatch, applied to texts and queries whose normalization *)
(* changes their length                                                     *)

Max(a, b) == IF a > b THEN a ELSE b

\* String.prototype.indexOf: the 0-based offset of the first occurrence, -1 if none
indexOf(s, t) ==
    IF includes(s, t)
    THEN (CHOOSE i \in 1..(Len(s) + 1) :
              OccursAt(s, t, i) /\ \A j \in 1..(i - 1) : ~OccursAt(s, t, j)) - 1
    ELSE -1

\* String.prototype.slice(start, end) on 0-based offsets: a negative offset counts
\* from the end, both are clamped to the string
sliceOffset(s, k) == IF k < 0 THEN Max(Len(s) + k, 0) ELSE Min(k, Len(s))

slice(s, start, end) == SubSeq(s, sliceOffset(s, start) + 1, sliceOffset(s, end))

\* the returned string, as the pieces it is concatenated from; wrapped says whether
\* the <span class="bg-yellow-200"> ... </span> pair stands around span
Highlighted(wrapped, before, span, after) ==
    [wrapped |-> wrapped, before |-> before, span |-> span, after |-> after]

highlightMatchByNormalizedLength(text, query) ==
    LET nQuery == normalize(query)
        idx    == indexOf(normalize(text), nQuery)
    IN  IF idx < 0
        THEN Highlighted(FALSE, text, <<>>, <<>>)
        ELSE Highlighted(TRUE, slice(text, 0, idx),
                         slice(text, idx, idx + Len(query)),
                         slice(text, idx + Len(nQuery), Len(text)))

highlightMatch(text, query) ==
    LET nQuery == normalize(query)
        nText  == normalize(text)
        idx    == indexOf(nText, nQuery)
    IN  IF idx < 0
        THEN Highlighted(FALSE, text, <<>>, <<>>)
        ELSE Highlighted(TRUE, slice(text, 0, idx),
                         slice(text, idx, idx + Len(query)),
                         slice(text, idx + Len(query), Len(text)))

\* 'a' N-tilde Alpha alpha: one unit that normalize removes, one it decomposes and
\* removes, two it folds to the same unit
HighlightAlphabet == {97, 209, 913, 945}

TextsOver(alphabet, n) == UNION { [1..k -> alphabet] : k \in 0..n }

InitHighlight ==
    /\ impl = "script"
    /\ csv = <<>>
    /\ typing = <<>>
    /\ arg \in [text : TextsOver(HighlightAlphabet, MaxLen),
                query : TextsOver(HighlightAlphabet, MinQueryLen)]
    /\ InitPage

ApplyHighlight ==
    /\ lastEvent.kind = "init"
    /\ result' = highlightMatch(arg.text, arg.query)
    /\ lastEvent' = SearchEvent("highlightMatch", arg.query, FALSE)
    /\ UNCHANGED <<searchVars, fetchVars, selectedLocation, blurTimer, uncaught, arg>>

NextHighlight == ApplyHighlight

SpecHighlight == InitHighlight /\ [][NextHighlight]_vars

-----------------------------------------------------------------------------
(* Claims about highlightMatch (checked under SpecHighlight) *)

HighlightDone == lastEvent.kind = "highlightMatch"

\* C13: highlightMatch returns a string for every text and query, and that string
\* is text with the wrapper put around one span of it: the part before the span,
\* the span and the part after it, concatenated, are text unchanged; the wrapper
\* is there exactly when the normalized query occurs in the normalized text, and
\* without it the string returned is text itself.
C13_HighlightKeepsText ==
    HighlightDone =>
        /\ result.before \o result.span \o result.after = arg.text
        /\ result.wrapped = includes(normalize(arg.text), normalize(arg.query))
        /\ ~result.wrapped => result.before = arg.text

\* a wrapped span of a text whose normalization is shorter than the text
C13_Witness ==
    /\ HighlightDone
    /\ result.wrapped
    /\ result.span # <<>>
    /\ result.after # <<>>
    /\ Len(normalize(arg.text)) < Len(arg.text)
    /\ Len(normalize(arg.query)) < Len(arg.query)

\* C14: the span highlightMatch wraps is the match: normalizing the span gives
\* the normalized query, for every text and query.
C14_SpanIsTheMatch ==
    (HighlightDone /\ result.wrapped) => normalize(result.span) = normalize(arg.query)

-----------------------------------------------------------------------------
(* class: degreesToDirection.  A bearing is counted in quarters of a degree, *)
(* so that the bucket width of 22.5 degrees and the ties between two        *)
(* buckets (11.25 degrees) are whole numbers.                               *)

\* the bearings tried reach from -MaxBearing to MaxBearing degrees
MaxBearing == 400

\* 22.5 degrees, in quarters of a degree
BucketWidth == 90

directions == <<"N", "NNE", "NE", "ENE", "E", "ESE", "SE", "SSE",
                "S", "SSW", "SW", "WSW", "W", "WNW", "NW", "NNW">>

\* what indexing an array outside 0..length-1 gives
Undefined == "undefined"

\* Math.round(num / den), den > 0: the nearest integer, a tie goes up
round(num, den) == (2 * num + den) \div (2 * den)

\* JavaScript's %: the remainder takes the sign of the dividend
rem(a, n) == IF a >= 0 THEN a % n ELSE -((-a) % n)

\* directions[index]
directionAt(index) ==
    IF index >= 0 /\ index < Len(directions) THEN directions[index + 1] ELSE Undefined

degreesToDirection(degrees) == directionAt(rem(round(degrees, BucketWidth), 16))

Bearings == (-(4 * MaxBearing))..(4 * MaxBearing)

InitCompass ==
    /\ impl = "class"
    /\ csv = <<>>
    /\ typing = <<>>
    /\ arg \in Bearings
    /\ InitPage

ApplyDirection ==
    /\ lastEvent.kind = "init"
    /\ result' = degreesToDirection(arg)
    /\ lastEvent' = SearchEvent("degreesToDirection", <<>>, FALSE)
    /\ UNCHANGED <<searchVars, fetchVars, selectedLocation, blurTimer, uncaught, arg>>

NextCompass == ApplyDirection

SpecCompass == InitCompass /\ [][NextCompass]_vars

-----------------------------------------------------------------------------
(* Claims about degreesToDirection (checked under SpecCompass) *)

Abs(n) == IF n < 0 THEN -n ELSE n

\* 360 degrees, in quarters of a degree
FullCircle == Len(directions) * BucketWidth

\* label k (from 0) stands for the bearings k * 22.5 degrees plus whole turns
NearestBucket(degrees, k) ==
    \E turn \in -2..2 : Abs(degrees - (k * BucketWidth + turn * FullCircle)) * 2 <= BucketWidth

\* C16: degreesToDirection gives, for every numeric bearing, one of the 16 labels,
\* never undefined, and the label is that of the nearest 22.5-degree bucket, with
\* wrap-around: 0 and 360 degrees give N, 202.5 degrees gives SSW.
C16_DirectionDefined ==
    lastEvent.kind = "degreesToDirection" =>
        /\ \E k \in 0..15 : result = directions[k + 1] /\ NearestBucket(arg, k)
        /\ arg \in {0, FullCircle} => result = "N"
        /\ arg = 810 => result = "SSW"

-----------------------------------------------------------------------------
(* Claims about the alerts section (checked under Spec) *)

\* C18: when a fetch renders its bodies, an alerts response with no alert shows
\* the 'No active weather alerts' message, and one with alerts shows the event
\* and headline of an alert of that very response.
C18_AlertsShown ==
    lastEvent.kind = "render" =>
        /\ lastEvent.data.alerts = "none" => display.alerts = NoAlerts
        /\ lastEvent.data.alerts = "alerts" => display.alerts = Data(lastEvent.f)

\* a second fetch renders an empty alerts response after the first one succeeded
C18_Witness ==
    /\ lastEvent.kind = "render"
    /\ lastEvent.f > 1
    /\ lastEvent.data.alerts = "none"
    /\ display.alerts = NoAlerts
    /\ fetches[1].pc = "success"

-----------------------------------------------------------------------------
(* class: the current-conditions block of updateWeatherUI on the fields of  *)
(* one observation, written over what the loading call left in the elements *)

\* the temperatures tried reach from -MaxTemp to MaxTemp degrees Celsius
MaxTemp == 20

\* a member that is absent, and a quantity { value: null }
Missing == [kind |-> "missing", v |-> 0]
Null == [kind |-> "null", v |-> 0]
Quantity(v) == [kind |-> "value", v |-> v]

\* what an element shows: kind says which text, v the number in it
Shown(kind, v) == [kind |-> kind, v |-> v]

\* Number(x) for a quantity's value: null is 0
ValueOf(q) == IF q.kind = "value" THEN q.v ELSE 0

\* x && x.value: the member is there and its value is neither null nor 0
TruthyValue(q) == q.kind = "value" /\ q.v # 0

\* Math.round(celsiusToFahrenheit(celsius)): (celsius * 9/5) + 32, rounded
celsiusToFahrenheit(celsius) == round(9 * celsius + 160, 5)

\* Math.round(mpsToMph(mps)): mps * 2.237, rounded
mpsToMph(mps) == round(2237 * mps, 1000)

\* the elements after updateWeatherUI(null, 'Loading weather data...', location),
\* the details still as the page had them
LoadingElements ==
    [temp |-> Shown("dash", 0), condition |-> Shown("loading", 0),
     humidity |-> Shown("page", 0), windSpeed |-> Shown("page", 0),
     windDirection |-> Shown("page", 0)]

\* lines 278-307, current = weatherData.current.properties
renderCurrent(el, current) ==
    LET temp == IF TruthyValue(current.temperature)
                THEN Shown("degreesF", celsiusToFahrenheit(current.temperature.v))
                ELSE el.temp
        condition == IF current.textDescription.kind = "value"
                     THEN Shown("description", current.textDescription.v)
                     ELSE el.condition
        humidity == IF current.relativeHumidity = Missing
                    THEN Shown("N/A", 0)
                    ELSE Shown("percent", ValueOf(current.relativeHumidity))
        windSpeed == IF current.windSpeed = Missing
                     THEN Shown("N/A", 0)
                     ELSE Shown("mph", mpsToMph(ValueOf(current.windSpeed)))
        windDirection == IF current.windDirection = Missing
                         THEN Shown("blank", 0)
                         ELSE Shown(degreesToDirection(ValueOf(current.windDirection)), 0)
    IN  [temp |-> temp, condition |-> condition, humidity |-> humidity,
         windSpeed |-> windSpeed, windDirection |-> windDirection]

\* the observations tried: every temperature, and for each other field the member
\* absent, its value null, and one value (a description, 50 %, 5 m/s, 202.5 degrees)
Observations ==
    [temperature : {Missing, Null} \cup { Quantity(c) : c \in (-MaxTemp)..MaxTemp },
     textDescription : {Missing, Quantity(1)},
     relativeHumidity : {Missing, Null, Quantity(50)},
     windSpeed : {Missing, Null, Quantity(5)},
     windDirection : {Missing, Null, Quantity(810)}]

InitRender ==
    /\ impl = "class"
    /\ csv = <<>>
    /\ typing = <<>>
    /\ arg \in Observations
    /\ InitPage

ApplyRender ==
    /\ lastEvent.kind = "init"
    /\ result' = renderCurrent(LoadingElements, arg)
    /\ lastEvent' = SearchEvent("renderCurrent", <<>>, FALSE)
    /\ UNCHANGED <<searchVars, fetchVars, selectedLocation, blurTimer, uncaught, arg>>

NextRender == ApplyRender

SpecRender == InitRender /\ [][NextRender]_vars

-----------------------------------------------------------------------------
(* Claims about the rendered observation (checked under SpecRender) *)

Rendered == lastEvent.kind = "renderCurrent"

\* C15: for every temperature C the observation reports, C = 0 and negative ones
\* included, the temperature shown is round(C * 9/5 + 32) degrees Fahrenheit.
C15_TemperatureShown ==
    (Rendered /\ arg.temperature.kind = "value") =>
        result.temp = Shown("degreesF", round(9 * arg.temperature.v + 160, 5))

\* C17: every field of the observation that is absent or null is shown as the
\* placeholder N/A (for the temperature the dashes count as one): never as a
\* value computed from null (0%, 0 mph, N) and never as the loading text.
C17_PlaceholderForNull ==
    Rendered =>
        /\ arg.temperature.kind # "value" => result.temp.kind \in {"N/A", "dash"}
        /\ arg.textDescription.kind # "value" => result.condition.kind = "N/A"
        /\ arg.relativeHumidity.kind # "value" => result.humidity.kind = "N/A"
        /\ arg.windSpeed.kind # "value" => result.windSpeed.kind = "N/A"
        /\ arg.windDirection.kind # "value" => result.windDirection.kind = "N/A"

-----------------------------------------------------------------------------
(* Loading a dataset whose rows are not all well formed.  A line is the     *)
(* sequence of its comma-separated values, each a text; classLoad and       *)
(* scriptLoad above are these loads on rows that all have five values and   *)
(* numeric coordinates.                                                     *)

\* datasets of up to MaxLines data lines are loaded
MaxLines == 3

\* a number parsed from text, or NaN
Number(n) == [nan |-> FALSE, n |-> n]
NaN == [nan |-> TRUE, n |-> 0]

IsDigit(c) == c >= 48 /\ c <= 57

\* the value of the leading decimal digits of s, after the digits read so far
RECURSIVE Digits(_, _)
Digits(s, read) ==
    IF s # <<>> /\ IsDigit(Head(s)) THEN Digits(Tail(s), 10 * read + (Head(s) - 48)) ELSE read

\* parseFloat(s) on texts without a fraction: leading white space is skipped, an
\* optional sign and the leading digits are read, what follows is ignored
parseFloat(s) ==
    LET t == trimStart(s)
        negative == t # <<>> /\ Head(t) = 45
        u == IF negative THEN Tail(t) ELSE t
    IN  IF u = <<>> \/ ~IsDigit(Head(u))
        THEN NaN
        ELSE Number(IF negative THEN -Digits(u, 0) ELSE Digits(u, 0))

Unknown == <<85, 110, 107, 110, 111, 119, 110>>

\* values[4] ? values[4].trim() : 'Unknown'
StateOf(values) == IF Len(values) >= 5 /\ values[5] # <<>> THEN trim(values[5]) ELSE Unknown

\* values[3].trim() is a TypeError when the line has fewer than four values
Throws(values) == Len(values) < 4

\* class: the object the map callback returns for one line
LineRecord(values) ==
    [zip |-> trim(values[1]), lat |-> parseFloat(values[2]), lng |-> parseFloat(values[3]),
     city |-> trim(values[4]), state |-> StateOf(values),
     displayText |-> trim(values[4]) \o CommaSpace \o StateOf(values) \o Space \o trim(values[1])]

LoadOutcome(threw, locs) == [threw |-> threw, locations |-> locs]

\* class: loadLocations on the data lines; locs is this.locations before the call.
\* An exception in the map callback is caught at line 90 and the assignment to
\* this.locations never happens.
classLoadLines(lines, locs) ==
    IF \E i \in 1..Len(lines) : Throws(lines[i])
    THEN LoadOutcome(TRUE, locs)
    ELSE LET mapped == [i \in 1..Len(lines) |-> LineRecord(lines[i])]
         IN  LoadOutcome(FALSE, SelectSeq(mapped, LAMBDA l : ~l.lat.nan /\ ~l.lng.nan))

\* script: the row object Papa.parse (header: true) hands over for one line; a
\* column the line does not reach is undefined, here the empty text (both falsy)
Field(values, k) == IF k <= Len(values) THEN values[k] ELSE <<>>

ParsedRow(values) ==
    [zip |-> Field(values, 1), lat |-> Field(values, 2), lng |-> Field(values, 3),
     city |-> Field(values, 4), state_id |-> Field(values, 5)]

\* r.zip && r.city && r.state_id && r.lat && r.lng
RowKept(r) == r.zip # <<>> /\ r.city # <<>> /\ r.state_id # <<>> /\ r.lat # <<>> /\ r.lng # <<>>

\* script: the complete callback; lat and lng stay the texts of the file until
\* onSuggestionClick runs parseFloat on them
scriptLoadLines(lines) ==
    LET rows == [i \in 1..Len(lines) |-> ParsedRow(lines[i])]
        kept == SelectSeq(rows, RowKept)
    IN  LoadOutcome(FALSE,
               [i \in 1..Len(kept) |->
                   [zip |-> kept[i].zip, lat |-> kept[i].lat,
                    lng |-> kept[i].lng, city |-> kept[i].city,
                    state_id |-> kept[i].state_id,
                    display |-> kept[i].city \o CommaSpace \o kept[i].state_id
                                \o Space \o kept[i].zip]])

\* two well-formed lines, a trailing partial line, a line whose latitude is not a
\* number, and one whose longitude is empty
\* 11,1,2,nan,aa   12,2,1,Na,2a   21,1   21,a,1,Na,aa   21,1,,Na,aa
LineKinds == {
    << <<49, 49>>, <<49>>, <<50>>, <<110, 97, 110>>, <<97, 97>> >>,
    << <<49, 50>>, <<50>>, <<49>>, <<78, 97>>, <<50, 97>> >>,
    << <<50, 49>>, <<49>> >>,
    << <<50, 49>>, <<97>>, <<49>>, <<78, 97>>, <<97, 97>> >>,
    << <<50, 49>>, <<49>>, <<>>, <<78, 97>>, <<97, 97>> >> }

LineSets == UNION { [1..k -> LineKinds] : k \in 0..MaxLines }

InitLoad ==
    /\ impl \in {"class", "script"}
    /\ csv = <<>>
    /\ typing = <<>>
    /\ arg \in LineSets
    /\ InitPage

ApplyClassLoad ==
    /\ lastEvent.kind = "init"
    /\ impl = "class"
    /\ result' = classLoadLines(arg, <<>>)
    /\ lastEvent' = SearchEvent("loadLines", <<>>, FALSE)
    /\ UNCHANGED <<searchVars, fetchVars, selectedLocation, blurTimer, uncaught, arg>>

ApplyScriptLoad ==
    /\ lastEvent.kind = "init"
    /\ impl = "script"
    /\ result' = scriptLoadLines(arg)
    /\ lastEvent' = SearchEvent("loadLines", <<>>, FALSE)
    /\ UNCHANGED <<searchVars, fetchVars, selectedLocation, blurTimer, uncaught, arg>>

NextLoad == ApplyClassLoad \/ ApplyScriptLoad

SpecLoad == InitLoad /\ [][NextLoad]_vars

-----------------------------------------------------------------------------
(* Claims about the load (checked under SpecLoad) *)

\* the coordinate of a record as a number: the class has parsed it, the script
\* parses it when the record is selected (parseFloat(li.dataset.lat))
Coordinate(x) == IF impl = "class" THEN x ELSE parseFloat(x)

\* a line with all five values, none empty, and numeric coordinates
WellFormed(values) ==
    /\ Len(values) = 5
    /\ \A k \in 1..5 : values[k] # <<>>
    /\ ~parseFloat(values[2]).nan
    /\ ~parseFloat(values[3]).nan

\* C19: a dataset with malformed lines (too few columns, a missing or non-numeric
\* coordinate, a trailing partial line) loads without a fatal error, and the
\* index then holds exactly the well-formed lines, in order, each record with
\* finite coordinates.
C19_MalformedRowsSkipped ==
    lastEvent.kind = "loadLines" =>
        LET good == SelectSeq(arg, WellFormed)
        IN  /\ Len(result.locations) = Len(good)
            /\ \A i \in 1..Len(result.locations) :
                  /\ i <= Len(good) => result.locations[i].zip = good[i][1]
                  /\ ~Coordinate(result.locations[i].lat).nan
                  /\ ~Coordinate(result.locations[i].lng).nan

-----------------------------------------------------------------------------
(* The search box under the user's hands: typing, the keyboard, clicks and  *)
(* blur, for either implementation.  The network does not answer here: a    *)
(* selection's fetch stays at its point request.                            *)

\* a handler that ran and changed nothing but the record of the run
Handled(event) ==
    /\ lastEvent' = event
    /\ UNCHANGED <<searchVars, fetchVars, otherVars>>

\* class: the click listener renderSuggestions puts on the k-th suggestion
suggestionClick(k) ==
    /\ ~containerHidden
    /\ k \in 1..Len(currentSuggestions)
    /\ selectLocationBy(currentSuggestions[k],
                        Event("click", Len(fetches) + 1,
                              locations[currentSuggestions[k]].displayText, TRUE,
                              0, "", NoBodies))

\* class: handleKeydown(e); selectedIndex counts from 0.  With selectedIndex
\* beyond the list, currentSuggestions[selectedIndex] is undefined and
\* selectLocation throws at location.displayText: the promise of the async
\* function is rejected and nothing handles it.
handleKeydown(key) ==
    /\ impl = "class"
    /\ \/ /\ currentSuggestions = <<>>
          /\ Handled(SearchEvent(key, <<>>, FALSE))
       \/ /\ currentSuggestions # <<>>
          /\ key = "ArrowDown"
          /\ selectedIndex' = Min(selectedIndex + 1, Len(currentSuggestions) - 1)
          /\ lastEvent' = SearchEvent(key, <<>>, FALSE)
          /\ UNCHANGED <<impl, csv, typing, locations, scriptLocations, value,
                         currentSuggestions, containerHidden, suggestionsBox, boxHidden,
                         fetchVars, otherVars>>
       \/ /\ currentSuggestions # <<>>
          /\ key = "ArrowUp"
          /\ selectedIndex' = Max(selectedIndex - 1, -1)
          /\ lastEvent' = SearchEvent(key, <<>>, FALSE)
          /\ UNCHANGED <<impl, csv, typing, locations, scriptLocations, value,
                         currentSuggestions, containerHidden, suggestionsBox, boxHidden,
                         fetchVars, otherVars>>
       \/ /\ currentSuggestions # <<>>
          /\ key = "Enter"
          /\ selectedIndex < 0
          /\ Handled(SearchEvent(key, <<>>, FALSE))
       \/ /\ currentSuggestions # <<>>
          /\ key = "Enter"
          /\ selectedIndex >= 0 /\ selectedIndex < Len(currentSuggestions)
          /\ selectLocationBy(currentSuggestions[selectedIndex + 1],
                              Event(key, Len(fetches) + 1,
                                    locations[currentSuggestions[selectedIndex + 1]].displayText,
                                    TRUE, 0, "", NoBodies))
       \/ /\ currentSuggestions # <<>>
          /\ key = "Enter"
          /\ selectedIndex >= Len(currentSuggestions)
          /\ uncaught' = TRUE
          /\ lastEvent' = SearchEvent(key, <<>>, FALSE)
          /\ UNCHANGED <<searchVars, fetchVars, selectedLocation, blurTimer, arg, result>>
       \/ /\ currentSuggestions # <<>>
          /\ key = "Escape"
          /\ SetSuggestions(hideSuggestions)
          /\ lastEvent' = SearchEvent(key, <<>>, FALSE)
          /\ UNCHANGED <<impl, csv, typing, locations, scriptLocations, value, suggestionsBox,
                         boxHidden, fetchVars, otherVars>>

\* class: handleBlur(e) sets the timer
handleBlur ==
    /\ impl = "class"
    /\ blurTimer' = TRUE
    /\ lastEvent' = SearchEvent("blur", value, FALSE)
    /\ UNCHANGED <<searchVars, fetchVars, selectedLocation, uncaught, arg, result>>

\* class: the timer's callback; the suggestions are divs without a tabindex, so
\* document.activeElement is never inside the container
blurTimeout ==
    /\ impl = "class"
    /\ blurTimer
    /\ blurTimer' = FALSE
    /\ SetSuggestions(hideSuggestions)
    /\ lastEvent' = SearchEvent("timeout", value, FALSE)
    /\ UNCHANGED <<impl, csv, typing, locations, scriptLocations, value, suggestionsBox,
                   boxHidden, fetchVars, selectedLocation, uncaught, arg, result>>

\* class: the document's click listener, for a click outside the search box
clickOutside ==
    /\ impl = "class"
    /\ SetSuggestions(hideSuggestions)
    /\ lastEvent' = SearchEvent("outside", value, FALSE)
    /\ UNCHANGED <<impl, csv, typing, locations, scriptLocations, value, suggestionsBox,
                   boxHidden, fetchVars, otherVars>>

\* script: 'city, state zip' of a selected location
SelectionText(location) ==
    location.city \o CommaSpace \o location.state \o Space \o location.zip

\* script: the object onSuggestionClick builds from the item's data attributes
\* (the attributes carry the record's texts as they are)
FromDataset(loc) ==
    [lat |-> loc.lat, lng |-> loc.lng, city |-> loc.city, state |-> loc.state_id,
     zip |-> loc.zip]

\* script: fetchWeatherForLocation(location) writes its demonstration data
fetchWeatherForLocation(d, location) ==
    [header |-> location, temp |-> Section("demo", 0), condition |-> Section("demo", 0),
     details |-> Section("demo", 0), alerts |-> NoAlerts, forecast |-> Section("demo", 0)]

\* script: onSuggestionClick(e), the list's mousedown listener, on its k-th item
onSuggestionClick(k) ==
    /\ impl = "script"
    /\ ~boxHidden
    /\ k \in 1..Len(suggestionsBox)
    /\ LET location == FromDataset(scriptLocations[suggestionsBox[k]])
       IN  /\ selectedLocation' = <<location>>
           /\ value' = SelectionText(location)
           /\ lastEvent' = Event("click", 0, SelectionText(location), TRUE, 0, "", NoBodies)
    /\ boxHidden' = TRUE
    /\ suggestionsBox' = <<>>
    /\ display' = fetchWeatherForLocation(display, suggestionsBox[k])
    /\ UNCHANGED <<impl, csv, typing, locations, scriptLocations, currentSuggestions,
                   selectedIndex, containerHidden, fetches, issued, blurTimer, uncaught,
                   arg, result>>

enforceSelectionNever(selected, text) == selected

\* script: enforceSelection(e), as what selectedLocation is afterwards
enforceSelection(selected, text) ==
    IF selected = <<>> \/ text # SelectionText(selected[1]) THEN <<>> ELSE selected

\* script: the blur listener sets the timer and runs enforceSelection
scriptBlur ==
    /\ impl = "script"
    /\ blurTimer' = TRUE
    /\ selectedLocation' = enforceSelection(selectedLocation, value)
    /\ lastEvent' = SearchEvent("blur", value, FALSE)
    /\ UNCHANGED <<searchVars, fetchVars, uncaught, arg, result>>

\* script: the timer's callback hides the list and leaves its items
scriptBlurTimeout ==
    /\ impl = "script"
    /\ blurTimer
    /\ blurTimer' = FALSE
    /\ boxHidden' = TRUE
    /\ lastEvent' = SearchEvent("timeout", value, FALSE)
    /\ UNCHANGED <<impl, csv, typing, locations, scriptLocations, value, currentSuggestions,
                   selectedIndex, containerHidden, suggestionsBox, fetchVars,
                   selectedLocation, uncaught, arg, result>>

\* script: the keydown listener, for Enter.  With one item in the list it calls
\* items[0].click(), which dispatches a click event; the list listens for
\* mousedown only, so no listener runs.  The record says whether one visible
\* suggestion was there to be confirmed, and its text.
scriptKeydown ==
    /\ impl = "script"
    /\ IF Len(suggestionsBox) = 1 /\ ~boxHidden
       THEN Handled(SearchEvent("Enter",
                                SelectionText(FromDataset(scriptLocations[suggestionsBox[1]])),
                                TRUE))
       ELSE Handled(SearchEvent("Enter", <<>>, FALSE))

\* n, a, n and alpha, alpha are typed: 'na' lists more records than 'nan', and
\* the two alphas list exactly one
Typings == { <<110, 97, 110>>, <<945, 945>> }

InitUI ==
    /\ impl \in {"class", "script"}
    /\ csv = RowsOf(SmallSize)
    /\ typing \in Typings
    /\ arg = <<>>
    /\ InitPage

NextUI ==
    \/ loadLocations
    \/ scriptLoadLocations
    \/ \E text \in Keystrokes : handleInput(text)
    \/ \E text \in Keystrokes : scriptInput(text)
    \/ handleFocus
    \/ \E key \in {"ArrowDown", "ArrowUp", "Enter", "Escape"} : handleKeydown(key)
    \/ \E k \in 1..Len(currentSuggestions) : suggestionClick(k)
    \/ handleBlur
    \/ blurTimeout
    \/ clickOutside
    \/ \E k \in 1..Len(suggestionsBox) : onSuggestionClick(k)
    \/ scriptBlur
    \/ scriptBlurTimeout
    \/ scriptKeydown

SpecUI == InitUI /\ [][NextUI]_vars

-----------------------------------------------------------------------------
(* Claims about the search box (checked under SpecUI) *)

SelectionCurrent == impl = "script" /\ selectedLocation # <<>>

\* C11 as stated: in every reachable state a current selected location has the
\* text of the search box as its 'city, state zip', and an edit of the search
\* box after a selection clears the selection.
C11_SelectionMatchesBox ==
    /\ SelectionCurrent => SelectionText(selectedLocation[1]) = value
    /\ (impl = "script" /\ lastEvent.kind = "input") => selectedLocation = <<>>

\* C11 as the script has it: right after a suggestion is chosen and after every
\* blur of the search box, a current selected location has the text of the
\* search box as its 'city, state zip'; an edit leaves the selection as it is
\* until the next blur clears it.
C11_SelectionEnforcedOnBlur ==
    (SelectionCurrent /\ lastEvent.kind \in {"click", "blur"}) =>
        SelectionText(selectedLocation[1]) = value

\* a blur clears a selection: one was made (the header names it) and edited
C11_Witness ==
    /\ impl = "script"
    /\ lastEvent.kind = "blur"
    /\ display.header # 0
    /\ selectedLocation = <<>>
    /\ value # SelectionText(FromDataset(scriptLocations[display.header]))

\* C12: Enter on a suggestion does what a click on it does: the search box gets
\* the suggestion's display text, its record becomes the selected location and
\* its weather fetch is started.
C12_EnterSelects ==
    (lastEvent.kind = "Enter" /\ lastEvent.filtered) =>
        /\ value = lastEvent.text
        /\ impl = "class" =>
              /\ lastEvent.f = Len(fetches) /\ lastEvent.f > 0
              /\ <<lastEvent.f, "point">> \in issued
              /\ locations[fetches[Len(fetches)].location].displayText = lastEvent.text
        /\ impl = "script" =>
              /\ SelectionCurrent
              /\ SelectionText(selectedLocation[1]) = lastEvent.text
              /\ display.header # 0

\* C20: no sequence of user events lets an exception or a promise rejection
\* escape every handler.
C20_NoUncaughtError == ~uncaught

-----------------------------------------------------------------------------
(* Claims about the highlighted suggestion (checked under SpecUI) *)

\* C21: in every reachable state of the class, selectedIndex is -1 or the index
\* (from 0) of a suggestion in currentSuggestions, also after typing that
\* shrinks the list under a highlighted suggestion; so an Enter that finds a
\* highlighted index selects a suggestion that is there.
C21_SelectedIndexInList ==
    impl = "class" =>
        /\ selectedIndex >= -1
        /\ selectedIndex <= Len(currentSuggestions) - 1

-----------------------------------------------------------------------------
(* The page when every request that was issued settles: each continuation   *)
(* of a call of fetchWeatherData that can run does run                      *)

\* the continuations of call f: a response or a body of its arrives
FetchStep(f) ==
    /\ f \in 1..Len(fetches)
    /\ \/ \E outcome \in PointOutcomes : PointSettle(f, outcome)
       \/ \E outcome \in {"ok", "failed"} : StationsSettle(f, outcome)
       \/ \E outcome \in {"resolved", "rejected"} : LatestSettle(f, outcome)
       \/ \E outcome \in {"resolved", "rejected"} : ForecastSettle(f, outcome)
       \/ \E outcome \in {"resolved", "rejected"} : AlertsSettle(f, outcome)
       \/ \E b \in Branches :
             \/ BodySettle(f, b, "malformed", NoBodies)
             \/ \E data \in BodiesAt(f, b) : BodySettle(f, b, "parsed", data)

SpecLive == Init /\ [][Next]_vars /\ \A f \in 1..MaxFetches : WF_vars(FetchStep(f))

-----------------------------------------------------------------------------
(* Claims about the end of a fetch (checked under SpecLive) *)

\* every selection's call leaves the loading state: it ends as success or failed
EverySelectionSettles ==
    \A f \in 1..MaxFetches : (Len(fetches) >= f) ~> (Len(fetches) >= f /\ ~InFlight(f))

\* when the last call in flight applies its outcome, the display shows weather
\* data or the error message, and the loading message is gone
NoLoadingLeft ==
    (OutcomeApplied /\ AllSettled) =>
        /\ display.condition # Loading
        /\ display.condition.kind \in {"data", "error"}

\* C22: provided every issued request settles, every selection's fetch goes from
\* loading to success or failed, and once it has, weather data or the error
\* message is displayed and the loading message does not remain on screen.
C22_LoadingEnds == EverySelectionSettles /\ []NoLoadingLeft

====
